---- MODULE Spec2Model ----
(***************************************************************************)
(* A model of script/mic_array/filters.py: the binary correlator VLMACCR1, *)
(* the two decimating filter stages (Stage1Filter, Stage2Filter), their    *)
(* composition TwoStageFilter and the coefficient loader load.             *)
(*                                                                         *)
(* Representation.                                                         *)
(*  - A real coefficient is the rational n / CoefDen, stored as its        *)
(*    numerator n.  Only the ratios coef / coef[t] reach the quantiser, so *)
(*    the float64 expressions (MAX / coef[t]) * coef are modelled by exact *)
(*    rational arithmetic followed by numpy's round-half-to-even.          *)
(*  - A float result of FilterFloat is stored as its numerator over        *)
(*    CoefDen (samples are integers).                                      *)
(*  - int64 values are 8-byte little-endian two's complement sequences     *)
(*    (TLC's integers are 32 bits wide), so the 64-bit accumulator of      *)
(*    FilterInt32 wraps exactly where numpy's does.                        *)
(*  - A signal is [ndim, rows]: rows is the (CHANS x SAMPLES) matrix that  *)
(*    the array has after the [np.newaxis,:] promotion of a 1-D input.     *)
(*  - A cast of NaN or of an out-of-range float to an integer type is      *)
(*    undefined in C; its outcome is chosen per call among the outcomes of *)
(*    the builds in Platforms.                                             *)
(*  - np.int and np.float are the builtin int and float, as in the numpy   *)
(*    releases that still define them.                                     *)
(*  - A call is one step: it fills ret with what the call returned or      *)
(*    raised, and with the padded signal and the windows it read on the    *)
(*    way; Return hands ret to the caller and Release drops the object.    *)
(***************************************************************************)
EXTENDS Integers, Sequences, FiniteSets, TLC

VARIABLES obj, ret

vars == <<obj, ret>>

(***************************************************************************)
(* Program constants.                                                      *)
(***************************************************************************)
INT16_MAX_COEFFICIENT == 32766

BLOCK_SIZE == 256

INT32_MAX_COEFFICIENT == 2147483647

\* 0x7FFFFF00, "the largest value a 1-block Stage1 filter can output"
STAGE1_MAX_OUT == 2147483392

\* the vector length VLMACCR1 asserts
VLMACCR_LEN == 256

INT32_MIN == (-2147483647) - 1

INT32_MAX == 2147483647

(***************************************************************************)
(* Bounds of the model.                                                    *)
(***************************************************************************)
\* coefficients are multiples of 1 / CoefDen
CoefDen == 4

\* largest tap count of a Stage2Filter
MaxTaps == 2

\* largest number of samples of a stage-2 input signal
MaxLen == 4

\* largest number of 256-tap blocks of a Stage1Filter
MaxBlocks == 1

(***************************************************************************)
(* Arithmetic helpers.                                                     *)
(***************************************************************************)
Abs(x) == IF x < 0 THEN -x ELSE x

Sign(x) == IF x > 0 THEN 1 ELSE IF x < 0 THEN -1 ELSE 0

Min(a, b) == IF a < b THEN a ELSE b

Max(a, b) == IF a > b THEN a ELSE b

RECURSIVE Pow2(_)
Pow2(n) == IF n = 0 THEN 1 ELSE 2 * Pow2(n - 1)

RECURSIVE SumRange(_, _, _)
\* f[lo] + .. + f[hi], by halving
SumRange(f, lo, hi) ==
  IF lo > hi THEN 0
  ELSE IF lo = hi THEN f[lo]
  ELSE LET mid == (lo + hi) \div 2
       IN  SumRange(f, lo, mid) + SumRange(f, mid + 1, hi)

\* Sum of f[1] .. f[n]
Sum(f, n) == SumRange(f, 1, n)

\* np.round of the rational num / den (den > 0): round half to even
RoundHalfEven(num, den) ==
  LET q == num \div den
      r == num % den
  IN  IF 2 * r > den THEN q + 1
      ELSE IF 2 * r = den THEN (IF q % 2 = 0 THEN q ELSE q + 1)
      ELSE q

\* np.argmax(np.abs(coefs)): the first index of the largest magnitude (1-based)
RECURSIVE ArgMaxRange(_, _, _)
ArgMaxRange(coefs, lo, hi) ==
  IF lo = hi THEN lo
  ELSE LET mid == (lo + hi) \div 2
           l   == ArgMaxRange(coefs, lo, mid)
           r   == ArgMaxRange(coefs, mid + 1, hi)
       IN  IF Abs(coefs[r]) > Abs(coefs[l]) THEN r ELSE l

ArgMaxAbs(coefs) == ArgMaxRange(coefs, 1, Len(coefs))

\* np.round((maxc / ct) * c) for |c| <= |ct|, ct # 0: the exact quotient
\* maxc * c / ct, split as (maxc \div d) * m + ((maxc % d) * m) / d so that no
\* intermediate exceeds maxc
QuantizeTap(maxc, c, ct) ==
  LET d == Abs(ct)
      m == c * Sign(ct)
      w == (maxc \div d) * m + (((maxc % d) * m) \div d)
      r == ((maxc % d) * m) % d
  IN  IF 2 * r > d THEN w + 1
      ELSE IF 2 * r = d THEN (IF w % 2 = 0 THEN w ELSE w + 1)
      ELSE w

(***************************************************************************)
(* Undefined casts.  float64 -> int16/int32 of NaN or of a value outside   *)
(* the target range: x86_64 (cvttsd2si) yields the "integer indefinite"    *)
(* 0x80000000, whose low 16 bits are 0; aarch64 (fcvtzs) yields 0 for NaN  *)
(* and saturates out-of-range values.                                      *)
(***************************************************************************)
Platforms == {"x86_64", "aarch64"}

CastNaN(plat, bits) ==
  IF plat = "x86_64" /\ bits = 32 THEN INT32_MIN ELSE 0

CastOverflow32(plat, neg) ==
  IF plat = "x86_64" THEN INT32_MIN
  ELSE IF neg THEN INT32_MIN ELSE INT32_MAX

(***************************************************************************)
(* int64 arithmetic on 8 little-endian bytes, two's complement.            *)
(***************************************************************************)
\* the int64 of an integer -2^31 <= v < 2^31
I64(v) ==
  LET x == IF v < 0 THEN 255 ELSE 0
  IN  <<v % 256, (v \div 256) % 256, (v \div 65536) % 256, (v \div 16777216) % 256,
        x, x, x, x>>

RECURSIVE I64Carry(_, _, _)
\* cols[k..8] reduced to bytes, with the carry into column k
I64Carry(cols, k, carry) ==
  IF k > 8 THEN <<>>
  ELSE LET t == cols[k] + carry
       IN  <<t % 256>> \o I64Carry(cols, k + 1, t \div 256)

I64Add(a, b) == I64Carry(<<>> \o [k \in 1..8 |-> a[k] + b[k]], 1, 0)

\* the low 64 bits of the product: exact for two's complement operands
I64Mul(a, b) ==
  I64Carry(<<>> \o [k \in 1..8 |-> Sum([i \in 1..k |-> a[i] * b[k + 1 - i]], k)], 1, 0)

I64IsNeg(a) == a[8] >= 128

I64Neg(a) == I64Add([k \in 1..8 |-> 255 - a[k]], I64(1))

\* the 64 bits of |a|, least significant first (|-2^63| = 2^63 fits)
I64MagBits(a) ==
  LET m == IF I64IsNeg(a) THEN I64Neg(a) ELSE a
      w == <<1, 2, 4, 8, 16, 32, 64, 128>>
  IN  <<>> \o [j \in 1..64 |-> (m[((j - 1) \div 8) + 1] \div w[((j - 1) % 8) + 1]) % 2]

RECURSIVE HighBitFrom(_, _)
HighBitFrom(bits, j) ==
  IF j = 0 THEN 0 ELSE IF bits[j] = 1 THEN j ELSE HighBitFrom(bits, j - 1)

\* index of the highest set bit of a bit sequence (0 when none is set)
HighBit(bits) == HighBitFrom(bits, Len(bits))

RECURSIVE BitsInc(_, _)
\* bits + 2^(pos-1); the sequence is long enough to take the carry
BitsInc(bits, pos) ==
  IF bits[pos] = 0 THEN [bits EXCEPT ![pos] = 1]
  ELSE BitsInc([bits EXCEPT ![pos] = 0], pos + 1)

\* the value of the low n <= 31 bits of a bit sequence
BitsVal(bits, n) == Sum([j \in 1..n |-> bits[j] * Pow2(j - 1)], n)

RECURSIVE I64Sum(_, _)
\* int64 sum of f[1] .. f[n], wrapping
I64Sum(f, n) == IF n = 0 THEN I64(0) ELSE I64Add(I64Sum(f, n - 1), f[n])

(***************************************************************************)
(* numpy indexing helpers.                                                 *)
(***************************************************************************)
\* a slice bound i normalised against an axis of length L
SliceIdx(i, L) == IF i < 0 THEN Max(L + i, 0) ELSE Min(i, L)

\* an array of length lv may be assigned to a slice of length ls
BroadcastOK(lv, ls) == lv = ls \/ lv = 1

\* windows that advance by one sample per output instead of Q
Window_UnitStride(L, Q, T, k) == [lo |-> Min(k, L), hi |-> Min(k + T, L)]

\* S[:, Q*k : Q*k + T] on an axis of length L (k counted from 0)
Window(L, Q, T, k) == [lo |-> Min(Q * k, L), hi |-> Min(Q * k + T, L)]

\* np.matmul(x, coefs) for one channel: x = row[lo+1 .. lo+T]
Dot(row, lo, coefs) ==
  Sum([j \in 1..Len(coefs) |-> row[lo + j] * coefs[j]], Len(coefs))

\* coefficients applied without reversal
Flip_None(a) == a

\* np.flip of a 1-D array
Flip(a) == [j \in 1..Len(a) |-> a[Len(a) + 1 - j]]

Raise(e) == [cls |-> "Error", err |-> e]

\* what a Filter* call leaves behind when it raises e
Failed(e) == [err |-> e, S |-> <<>>, win |-> <<>>, val |-> <<>>, rescaled |-> <<>>]

(***************************************************************************)
(* VLMACCR1                                                                *)
(***************************************************************************)
\* the correlator without the inversion of (vC == mem): it counts agreements
VLMACCR1_NoInvert(vC, mem, acc) ==
  IF Len(vC) # VLMACCR_LEN \/ Len(mem) # VLMACCR_LEN
  THEN [err |-> "AssertionError", val |-> 0]
  ELSE LET q == [i \in 1..VLMACCR_LEN |-> IF vC[i] = mem[i] THEN 1 ELSE 0]
       IN  [err |-> "", val |-> acc + (128 - Sum(q, VLMACCR_LEN))]

VLMACCR1(vC, mem, acc) ==
  IF Len(vC) # VLMACCR_LEN \/ Len(mem) # VLMACCR_LEN
  THEN [err |-> "AssertionError", val |-> 0]
  ELSE LET q == [i \in 1..VLMACCR_LEN |-> IF ~(vC[i] = mem[i]) THEN 1 ELSE 0]
           popcount_xor == Sum(q, VLMACCR_LEN)
       IN  [err |-> "", val |-> acc + (128 - popcount_xor)]

(***************************************************************************)
(* Stage1Filter                                                            *)
(***************************************************************************)
\* np.round(scale * coefs).astype(intN) with scale = maxc / coefs[t]; a zero
\* peak gives scale = inf and inf * 0 = NaN in every tap
ScaleRoundCast(maxc, coefs, t, plat, bits) ==
  [i \in 1..Len(coefs) |->
     IF coefs[t] = 0 THEN CastNaN(plat, bits)
     ELSE QuantizeTap(maxc, coefs[i], coefs[t])]

Stage1Filter_init(coefs, decimation_factor, plat) ==
  IF Len(coefs) % BLOCK_SIZE # 0 THEN Raise("AssertionError")
  ELSE IF Len(coefs) = 0 THEN Raise("ValueError")
  ELSE LET t == ArgMaxAbs(coefs)
       IN  IF Abs(coefs[t]) > CoefDen THEN Raise("AssertionError")
           ELSE [cls         |-> "Stage1Filter",
                 dec_factor  |-> decimation_factor,
                 coefs       |-> coefs,
                 scale_int16 |-> [num |-> INT16_MAX_COEFFICIENT, den |-> coefs[t]],
                 coefs_int16 |-> ScaleRoundCast(INT16_MAX_COEFFICIENT, coefs, t, plat, 16)]

\* bit k (0 = least significant) of the 16-bit two's complement pattern of v
Int16Bit(v, k) ==
  ((v + 65536) \div <<1, 2, 4, 8, 16, 32, 64, 128, 256, 512, 1024, 2048, 4096,
                      8192, 16384, 32768>>[k + 1]) % 2

\* util.int16_vect_to_bipolar_matrix(coefs_int16, util.int16_dual): one
\* 16-wide row of +1/-1 per tap, -1 where the bit is set
CoefBipolar(self) ==
  [i \in 1..Len(self.coefs_int16) |->
     [k \in 1..16 |-> 1 - 2 * Int16Bit(self.coefs_int16[i], k - 1)]]

\* (1 - coefs_bipolar.T) // 2: a 16 x TapCount matrix of bits
CoefBinary(self) ==
  LET bp == CoefBipolar(self)
  IN  [k \in 1..16 |-> [i \in 1..Len(self.coefs_int16) |-> (1 - bp[i][k]) \div 2]]

Stage1_pad_input(self, sig) ==
  LET CHANS  == Len(sig.rows)
      N      == Len(sig.rows[1])
      Q      == self.dec_factor
      P      == Len(self.coefs) - Q
      L      == P + N
      stop   == SliceIdx(P, L)
      padlen == Max(P, 0)
      start  == SliceIdx(P, L)
  IN  IF L < 0 THEN [err |-> "ValueError", S |-> <<>>]
      ELSE IF ~BroadcastOK(padlen, stop) THEN [err |-> "ValueError", S |-> <<>>]
      ELSE IF ~BroadcastOK(N, L - start) THEN [err |-> "ValueError", S |-> <<>>]
      ELSE [err |-> "",
            S   |-> [c \in 1..CHANS |-> [i \in 1..L |->
                       IF i > start
                       THEN sig.rows[c][IF N = 1 THEN 1 ELSE i - start]
                       ELSE IF i <= stop
                       THEN 2 * ((IF padlen = 1 THEN 0 ELSE i - 1) % 2) - 1
                       ELSE 0]]]

\* the windows x = S[:, Q*k : Q*k + TapCount] that the loop of a Filter*
\* method reads, k = 0 .. N_pcm - 1
FilterLoop(pad, N_pcm, Q, T) ==
  LET L == Len(pad.S[1])
  IN  <<>> \o [k \in 1..N_pcm |-> Window(L, Q, T, k - 1)]

Stage1_FilterFloat(self, sig) ==
  LET Q     == self.dec_factor
      T     == Len(self.coefs)
      N_pcm == Len(sig.rows[1]) \div Q
      pad   == Stage1_pad_input(self, sig)
      win   == FilterLoop(pad, N_pcm, Q, T)
  IN  IF pad.err # "" THEN Failed(pad.err)
      ELSE IF \E k \in 1..N_pcm : win[k].hi - win[k].lo # T THEN Failed("ValueError")
      ELSE [err |-> "", S |-> pad.S, win |-> win, rescaled |-> <<>>,
            val |-> [c \in 1..Len(pad.S) |-> [k \in 1..N_pcm |->
                       Dot(pad.S[c], win[k].lo, self.coefs)]]]

\* a shift by 7 bits
Shl8_By7(v) == v * 128

\* v << 8 in int32
Shl8(v) ==
  LET u == v % 16777216
  IN  IF u >= 8388608 THEN (u - 16777216) * 256 ELSE u * 256

Stage1_FilterInt16(self, sig) ==
  LET Q     == self.dec_factor
      T     == Len(self.coefs)
      N_pcm == Len(sig.rows[1]) \div Q
      pad   == Stage1_pad_input(self, sig)
      win   == FilterLoop(pad, N_pcm, Q, T)
  IN  IF pad.err # "" THEN Failed(pad.err)
      ELSE IF \E k \in 1..N_pcm : win[k].hi - win[k].lo # T THEN Failed("ValueError")
      ELSE [err |-> "", S |-> pad.S, win |-> win, rescaled |-> <<>>,
            val |-> [c \in 1..Len(pad.S) |-> [k \in 1..N_pcm |->
                       Shl8(Dot(pad.S[c], win[k].lo, self.coefs_int16))]]]

\* a 32-bit word as its two 16-bit halves; bits[1] is the most significant
Word32(bits) ==
  LET F == <<32768, 16384, 8192, 4096, 2048, 1024, 512, 256, 128, 64, 32, 16, 8, 4, 2, 1>>
  IN  [hi |-> Sum([j \in 1..16 |-> F[j] * bits[j]], 16),
       lo |-> Sum([j \in 1..16 |-> F[j] * bits[16 + j]], 16)]

\* a packing of one bit per tap: 8 words per block of 256 taps
ToXCoreCoefArray_OneBitPerTap(self) ==
  [err |-> "",
   val |-> [k \in 1..((Len(self.coefs_int16) \div 256) * 8) |-> [hi |-> 0, lo |-> 0]]]

ToXCoreCoefArray(self) ==
  LET B    == CoefBinary(self)
      cols == Len(self.coefs_int16)
      size == 16 * cols
      \* the row-major flattening of B, 0-based
      flat(idx) == B[(idx \div cols) + 1][(idx % cols) + 1]
      \* B.reshape((size // 256, 8, 32))
      B3(m, a, j) == flat(m * 256 + a * 32 + j)
      \* np.flip(axis=1), np.flip(axis=2)
      F3(m, a, j) == B3(m, 7 - a, 31 - j)
      \* B.reshape((size // 32, 32))
      N    == size \div 32
      B2(r, j) == F3(r \div 8, r % 8, j)
  IN  IF size % 256 # 0 THEN [err |-> "ValueError", val |-> <<>>]
      ELSE [err |-> "",
            val |-> [k \in 1..N |-> Word32([j \in 1..32 |-> B2(k - 1, j - 1)])]]

(***************************************************************************)
(* Stage2Filter                                                            *)
(***************************************************************************)
\* np.dot(int64(0x7FFFFF00) * sign(coefs_int32), round(coefs_int32 / 2**30))
MaxSampOut(coefs_int32) ==
  I64Sum([i \in 1..Len(coefs_int32) |->
            I64Mul(I64Mul(I64(STAGE1_MAX_OUT), I64(Sign(coefs_int32[i]))),
                   I64(RoundHalfEven(coefs_int32[i], Pow2(30))))],
         Len(coefs_int32))

Stage2Filter_init(coefs, decimation_factor, plat) ==
  IF Len(coefs) = 0 THEN Raise("ValueError")
  ELSE LET t            == ArgMaxAbs(coefs)
           coefs_int32  == ScaleRoundCast(INT32_MAX_COEFFICIENT, coefs, t, plat, 32)
           max_samp_out == MaxSampOut(coefs_int32)
           \* floor(log2(v)) is the index of v's highest bit: v is a multiple of
           \* 2^23 - 1, never within float64 rounding of a power of two
           log2         == HighBit(I64MagBits(max_samp_out)) - 1
       IN  IF Abs(coefs[t]) > CoefDen THEN Raise("AssertionError")
           ELSE IF I64IsNeg(max_samp_out) THEN Raise("ValueError")
           ELSE IF log2 < 0 THEN Raise("OverflowError")
           ELSE [cls         |-> "Stage2Filter",
                 dec_factor  |-> decimation_factor,
                 coefs       |-> coefs,
                 scale_int32 |-> [num |-> INT32_MAX_COEFFICIENT, den |-> coefs[t]],
                 coefs_int32 |-> coefs_int32,
                 shr_int32   |-> log2 - 30]

Stage2_pad_input(self, sig) ==
  LET CHANS  == Len(sig.rows)
      N      == Len(sig.rows[1])
      Q      == self.dec_factor
      P      == Len(self.coefs) - Q
      L      == P + N
      start  == SliceIdx(P, L)
  IN  IF L < 0 THEN [err |-> "ValueError", S |-> <<>>]
      ELSE IF ~BroadcastOK(N, L - start) THEN [err |-> "ValueError", S |-> <<>>]
      ELSE [err |-> "",
            S   |-> [c \in 1..CHANS |-> [i \in 1..L |->
                       IF i > start
                       THEN sig.rows[c][IF N = 1 THEN 1 ELSE i - start]
                       ELSE 0]]]

Stage2_FilterFloat(self, sig) ==
  LET Q         == self.dec_factor
      T         == Len(self.coefs)
      SAMPS_OUT == Len(sig.rows[1]) \div Q
      pad       == Stage2_pad_input(self, sig)
      win       == FilterLoop(pad, SAMPS_OUT, Q, T)
      coefs     == Flip(self.coefs)
  IN  IF pad.err # "" THEN Failed(pad.err)
      ELSE IF \E k \in 1..SAMPS_OUT : win[k].hi - win[k].lo # T THEN Failed("ValueError")
      ELSE [err |-> "", S |-> pad.S, win |-> win, rescaled |-> <<>>,
            val |-> [c \in 1..Len(pad.S) |-> [k \in 1..SAMPS_OUT |->
                       Dot(pad.S[c], win[k].lo, coefs)]]]

\* float64(p): |p| rounded to 53 significant bits, half to even; 65 bits
Float53(bits) ==
  LET h   == HighBit(bits)
      d   == h - 53
      ext == bits \o <<0>>
      cut == <<>> \o [j \in 1..65 |-> IF j <= d THEN 0 ELSE ext[j]]
      up  == bits[d] = 1 /\ (bits[d + 1] = 1 \/ \E i \in 1..(d - 1) : bits[i] = 1)
  IN  IF h <= 53 THEN ext ELSE IF up THEN BitsInc(cut, d + 1) ELSE cut

\* np.round(x * 2**(-s)) of the float with magnitude bits x, s >= 1
ShiftRound(bits, s) ==
  LET n  == Len(bits)
      q  == SubSeq(bits, s + 1, n) \o <<0>>
      up == bits[s] = 1 /\ (q[1] = 1 \/ \E i \in 1..(s - 1) : bits[i] = 1)
  IN  IF up THEN BitsInc(q, 1) ELSE q

\* np.round(p * 2**(-s)) of an int64 p: sign and magnitude bits
Rescale(p, s) == [neg |-> I64IsNeg(p), mag |-> ShiftRound(Float53(I64MagBits(p)), s)]

\* the rescaled value lies in [-2^31, 2^31 - 1]
InInt32(r) ==
  LET h == HighBit(r.mag)
  IN  h <= 31 \/ (r.neg /\ h = 32 /\ \A i \in 1..31 : r.mag[i] = 0)

\* .astype(np.int32) of the rescaled float
CastInt32(r, plat) ==
  IF ~InInt32(r) THEN CastOverflow32(plat, r.neg)
  ELSE IF HighBit(r.mag) = 32 THEN INT32_MIN
  ELSE IF r.neg THEN -BitsVal(r.mag, 31) ELSE BitsVal(r.mag, 31)

\* np.matmul(x, coefs) in int64 for one channel
DotInt64(row, lo, coefs) ==
  I64Sum([j \in 1..Len(coefs) |-> I64Mul(I64(row[lo + j]), I64(coefs[j]))], Len(coefs))

\* FilterInt32 up to the rounding: the 64-bit accumulator of every output,
\* rescaled by 2**(-30 - shr_int32) and rounded
Stage2_Accumulate(self, sig) ==
  LET Q         == self.dec_factor
      T         == Len(self.coefs)
      SAMPS_OUT == Len(sig.rows[1]) \div Q
      pad       == Stage2_pad_input(self, sig)
      win       == FilterLoop(pad, SAMPS_OUT, Q, T)
      coefs     == <<>> \o Flip(self.coefs_int32)
      rescaled  == <<>> \o [c \in 1..Len(pad.S) |-> <<>> \o [k \in 1..SAMPS_OUT |->
                      Rescale(DotInt64(pad.S[c], win[k].lo, coefs), 30 + self.shr_int32)]]
  IN  IF pad.err # "" THEN Failed(pad.err)
      ELSE IF \E k \in 1..SAMPS_OUT : win[k].hi - win[k].lo # T THEN Failed("ValueError")
      ELSE [err |-> "", S |-> pad.S, win |-> win, rescaled |-> rescaled, val |-> <<>>]

\* the cast of the rounded values to the int32 result array
Stage2_Cast(acc, plat) ==
  IF acc.err # "" THEN acc
  ELSE [acc EXCEPT !.val = [c \in 1..Len(acc.rescaled) |->
                              [k \in 1..Len(acc.rescaled[c]) |->
                                 CastInt32(acc.rescaled[c][k], plat)]]]

Stage2_FilterInt32(self, sig, plat) == Stage2_Cast(Stage2_Accumulate(self, sig), plat)

\* the results of FilterInt32 on the builds, from one accumulation
Stage2_Results(acc) == {Stage2_Cast(acc, plat) : plat \in Platforms}

(***************************************************************************)
(* TwoStageFilter                                                          *)
(***************************************************************************)
TwoStageFilter_init(s1_filter, s2_filter) ==
  [cls |-> "TwoStageFilter", s1 |-> s1_filter, s2 |-> s2_filter]

TwoStage_DecimationFactor(self) == self.s1.dec_factor * self.s2.dec_factor

\* s2.FilterInt32(s1.FilterInt16(sig_in)) up to the final cast
TwoStage_Accumulate(self, s1_output) ==
  IF s1_output.err # "" THEN Failed(s1_output.err)
  ELSE Stage2_Accumulate(self.s2, [ndim |-> 2, rows |-> s1_output.val])

TwoStage_Filter(self, sig, plat) ==
  Stage2_Cast(TwoStage_Accumulate(self, Stage1_FilterInt16(self.s1, sig)), plat)

(***************************************************************************)
(* load                                                                    *)
(***************************************************************************)
\* a[:stop] for a possibly negative stop
SliceTo(a, stop) == SubSeq(a, 1, SliceIdx(stop, Len(a)))

\* the sequence load hands to Stage1Filter
LoadStage1Coefs(coefs, truncate_s1) ==
  IF truncate_s1
  THEN LET p == Len(coefs) % BLOCK_SIZE IN SliceTo(coefs, -p)
  ELSE coefs

load(stage1, stage2, truncate_s1, plat) ==
  LET handed    == LoadStage1Coefs(stage1[1], truncate_s1)
      s1_filter == Stage1Filter_init(handed, stage1[2], plat)
      s2_filter == Stage2Filter_init(stage2[1], stage2[2], plat)
  IN  [handed |-> handed,
       err    |-> IF s1_filter.cls = "Error" THEN s1_filter.err
                  ELSE IF s2_filter.cls = "Error" THEN s2_filter.err ELSE "",
       s1     |-> s1_filter,
       s2     |-> s2_filter]

(***************************************************************************)
(* The inputs of the model.                                                *)
(***************************************************************************)
\* numerators of the coefficient values: -1, 0, 1/CoefDen, 1 and one value
\* above 1.0, which the constructors reject
CoefNums == {-CoefDen, 0, 1, CoefDen, CoefDen + 1}

Tile(pat, n) == [i \in 1..n |-> pat[((i - 1) % Len(pat)) + 1]]

Negate(row) == [i \in 1..Len(row) |-> -row[i]]

SeqsUpTo(A, lo, hi) == UNION {[1..k -> A] : k \in lo..hi}

\* 1-D arrays
OneChannel(rows) == {[ndim |-> 1, rows |-> <<r>>] : r \in rows}

\* 2-D arrays of two channels
TwoChannel(rows) == {[ndim |-> 2, rows |-> <<r, Negate(r)>>] : r \in rows}

Signals(rows) == OneChannel(rows) \cup TwoChannel(rows)

\* stage-1 coefficient sets: a two-tap pattern repeated over whole blocks
Stage1Coefs ==
  {Tile(<<a, b>>, BLOCK_SIZE * n) : a \in CoefNums, b \in CoefNums, n \in 0..MaxBlocks}

\* decimation factors of a stage 1: the default, TapCount of one block, and
\* one more than it
Stage1Factors == {32, BLOCK_SIZE, BLOCK_SIZE + 1}

\* stage-2 coefficient sets: a two-tap pattern repeated
Stage2Coefs ==
  {Tile(<<a, b>>, n) : a \in CoefNums, b \in CoefNums, n \in 0..MaxTaps}

Stage2Factors == {1, 2}

\* PDM signals for a stage 1 of decimation factor Q: samples in {-1, +1}
PdmSignals(Q) ==
  Signals({Tile(pat, j * Q + r) :
             pat \in {<<1>>, <<-1>>, <<1, -1>>}, j \in 0..2, r \in 0..1})

\* small stage-2 inputs, which include the unit impulses
SmallSignals ==
  OneChannel(SeqsUpTo({0, 1}, 0, MaxLen))
    \cup TwoChannel({Tile(<<1, 0>>, n) : n \in 0..MaxLen})

\* stage-2 inputs of full-scale stage-1 outputs
FullScaleSignals ==
  OneChannel({Tile(pat, n) :
                pat \in {<<STAGE1_MAX_OUT>>, <<-STAGE1_MAX_OUT>>,
                         <<STAGE1_MAX_OUT, -STAGE1_MAX_OUT>>},
                n \in 1..MaxLen})

Int32Signals == SmallSignals \cup FullScaleSignals

NoObj == [cls |-> "None"]

\* the record of a constructor call
Constructed(op, o) ==
  [op |-> op, err |-> IF o.cls = "Error" THEN o.err ELSE ""]

\* the record of a Filter* call on sig with outcome r; the methods rebind
\* their parameter and write only to arrays they allocate, so the caller's
\* array is as it was
Filtered(op, sig, r) ==
  [op |-> op, arg |-> sig, arg_after |-> sig, err |-> r.err, S |-> r.S,
   win |-> r.win, val |-> r.val, rescaled |-> r.rescaled]

(***************************************************************************)
(* Actions: one per constructor, method and function.                      *)
(***************************************************************************)
Idle == [op |-> "none", err |-> ""]

Init == obj = NoObj /\ ret = Idle

NewStage1 ==
  /\ obj = NoObj /\ ret = Idle
  /\ \E coefs \in Stage1Coefs, Q \in Stage1Factors, plat \in Platforms :
       LET o == Stage1Filter_init(coefs, Q, plat)
       IN  /\ obj' = IF o.cls = "Error" THEN NoObj ELSE o
           /\ ret' = Constructed("Stage1Filter", o)

NewStage2 ==
  /\ obj = NoObj /\ ret = Idle
  /\ \E coefs \in Stage2Coefs, Q \in Stage2Factors, plat \in Platforms :
       LET o == Stage2Filter_init(coefs, Q, plat)
       IN  /\ obj' = IF o.cls = "Error" THEN NoObj ELSE o
           /\ ret' = Constructed("Stage2Filter", o)

S1FilterFloat ==
  /\ obj.cls = "Stage1Filter" /\ ret = Idle
  /\ \E sig \in PdmSignals(obj.dec_factor) :
       ret' = Filtered("Stage1Filter.FilterFloat", sig, Stage1_FilterFloat(obj, sig))
  /\ UNCHANGED obj

S1FilterInt16 ==
  /\ obj.cls = "Stage1Filter" /\ ret = Idle
  /\ \E sig \in PdmSignals(obj.dec_factor) :
       ret' = Filtered("Stage1Filter.FilterInt16", sig, Stage1_FilterInt16(obj, sig))
  /\ UNCHANGED obj

S1ToXCoreCoefArray ==
  /\ obj.cls = "Stage1Filter" /\ ret = Idle
  /\ LET r == ToXCoreCoefArray(obj)
     IN  ret' = [op |-> "Stage1Filter.ToXCoreCoefArray", err |-> r.err, val |-> r.val]
  /\ UNCHANGED obj

S2FilterFloat ==
  /\ obj.cls = "Stage2Filter" /\ ret = Idle
  /\ \E sig \in SmallSignals :
       ret' = Filtered("Stage2Filter.FilterFloat", sig, Stage2_FilterFloat(obj, sig))
  /\ UNCHANGED obj

\* the records of a call whose outcome is one of rs
FilteredAny(op, sig, rs) == {Filtered(op, sig, r) : r \in rs}

\* Stage2_FilterInt32(obj, sig, plat) on either build
S2FilterInt32 ==
  /\ obj.cls = "Stage2Filter" /\ ret = Idle
  /\ \E sig \in Int32Signals :
       ret' \in FilteredAny("Stage2Filter.FilterInt32", sig,
                            Stage2_Results(Stage2_Accumulate(obj, sig)))
  /\ UNCHANGED obj

(***************************************************************************)
(* The composition: a TwoStageFilter of a one-block stage 1.               *)
(***************************************************************************)
TwoStage1Coefs ==
  {Tile(<<a, b>>, BLOCK_SIZE) : a \in {-CoefDen, CoefDen}, b \in {0, 1}}

TwoStage2Coefs ==
  {Tile(<<a, b>>, n) : a \in {1, CoefDen}, b \in {1, CoefDen}, n \in 1..MaxTaps}

NewTwoStage ==
  /\ obj = NoObj /\ ret = Idle
  /\ \E c1 \in TwoStage1Coefs, Q1 \in Stage1Factors,
        c2 \in TwoStage2Coefs, Q2 \in Stage2Factors, plat \in Platforms :
       LET s1 == Stage1Filter_init(c1, Q1, plat)
           s2 == Stage2Filter_init(c2, Q2, plat)
       IN  /\ s1.cls # "Error" /\ s2.cls # "Error"
           /\ obj' = TwoStageFilter_init(s1, s2)
           /\ ret' = [op |-> "TwoStageFilter", err |-> ""]

TwoStageDecimationFactor ==
  /\ obj.cls = "TwoStageFilter" /\ ret = Idle
  /\ ret' = [op |-> "TwoStageFilter.DecimationFactor", err |-> "",
             val |-> TwoStage_DecimationFactor(obj)]
  /\ UNCHANGED obj

TwoStageFilter ==
  /\ obj.cls = "TwoStageFilter" /\ ret = Idle
  /\ \E sig \in PdmSignals(TwoStage_DecimationFactor(obj)) :
       ret' \in FilteredAny("TwoStageFilter.Filter", sig,
                  Stage2_Results(TwoStage_Accumulate(obj, Stage1_FilterInt16(obj.s1, sig))))
  /\ UNCHANGED obj

(***************************************************************************)
(* The free functions.                                                     *)
(***************************************************************************)
\* longest period of the bit patterns of the correlator's inputs
MaxPeriod == 3

BitVectors ==
  {Tile(pat, n) : pat \in SeqsUpTo({0, 1}, 1, MaxPeriod),
                  n \in {VLMACCR_LEN - 1, VLMACCR_LEN}}

Accumulators == {-7, 0, 5}

VLMACCR1Call ==
  /\ ret = Idle
  /\ \E vC \in BitVectors, mem \in BitVectors, acc \in Accumulators :
       LET r == VLMACCR1(vC, mem, acc)
       IN  ret' = [op |-> "VLMACCR1", vC |-> vC, mem |-> mem, acc |-> acc,
                   err |-> r.err, val |-> r.val]
  /\ UNCHANGED obj

\* the pickled (stage1, stage2) pair; stage1 is a list, as the item
\* assignment of the truncation requires
LoadStage1 ==
  {<<Tile(<<a, b>>, BLOCK_SIZE * n + r), 32>> :
     a \in CoefNums, b \in CoefNums, n \in 0..MaxBlocks, r \in 0..2}

LoadStage2 == {<<c, 1>> : c \in SeqsUpTo({1, CoefDen}, 1, 1)}

Load ==
  /\ obj = NoObj /\ ret = Idle
  /\ \E stage1 \in LoadStage1, stage2 \in LoadStage2, truncate_s1 \in BOOLEAN,
        plat \in Platforms :
       LET r == load(stage1, stage2, truncate_s1, plat)
       IN  /\ ret' = [op |-> "load", coefs |-> stage1[1], truncate_s1 |-> truncate_s1,
                       handed |-> r.handed, err |-> r.err]
           /\ obj' = IF r.err # "" THEN NoObj
                      ELSE [cls |-> "tuple", s1 |-> r.s1, s2 |-> r.s2]

\* the caller takes the result of the last call
Return ==
  /\ ret # Idle
  /\ ret' = Idle
  /\ UNCHANGED obj

\* the caller drops the object
Release ==
  /\ obj # NoObj /\ ret = Idle
  /\ obj' = NoObj
  /\ UNCHANGED ret

Next ==
  \/ NewStage1
  \/ NewStage2
  \/ S1FilterFloat
  \/ S1FilterInt16
  \/ S1ToXCoreCoefArray
  \/ S2FilterFloat
  \/ S2FilterInt32
  \/ Return
  \/ Release

Spec == Init /\ [][Next]_vars

NextTwoStage ==
  \/ NewTwoStage
  \/ TwoStageDecimationFactor
  \/ TwoStageFilter
  \/ Return
  \/ Release

SpecTwoStage == Init /\ [][NextTwoStage]_vars

NextCorrelator ==
  \/ VLMACCR1Call
  \/ Return

SpecCorrelator == Init /\ [][NextCorrelator]_vars

NextLoad ==
  \/ Load
  \/ Return
  \/ Release

SpecLoad == Init /\ [][NextLoad]_vars

(***************************************************************************)
(* Properties.  Each is stated over the record ret of the last call and    *)
(* the object obj it was made on.                                          *)
(***************************************************************************)
FilterOps ==
  {"Stage1Filter.FilterFloat", "Stage1Filter.FilterInt16",
   "Stage2Filter.FilterFloat", "Stage2Filter.FilterInt32"}

\* the number of positions where two bit vectors differ
PopcountXor(a, b) == Cardinality({i \in 1..Len(a) : a[i] # b[i]})

\* C1: on a window whose samples all have magnitude 0x7FFFFF00 and the sign
\* of the coefficient they are multiplied with, the rescaled accumulator of
\* FilterInt32 lies in [-2^31, 2^31 - 1]
C1_NoOverflowOnWorstCase ==
  (ret.op = "Stage2Filter.FilterInt32" /\ ret.err = "") =>
    \A c \in 1..Len(ret.rescaled) : \A k \in 1..Len(ret.rescaled[c]) :
      (\A j \in 1..Len(obj.coefs_int32) :
         LET x  == ret.S[c][ret.win[k].lo + j]
             cf == obj.coefs_int32[Len(obj.coefs_int32) + 1 - j]
         IN  x \in {STAGE1_MAX_OUT, -STAGE1_MAX_OUT} /\ (cf # 0 => Sign(x) = Sign(cf)))
      => InInt32(ret.rescaled[c][k])

\* C2: every accepted filter has a quantized tap of magnitude exactly the
\* maximum coefficient at the index of its peak coefficient, a negative peak
\* and an all-zero coefficient set included
C2_PeakTapIsMaxCoefficient ==
  /\ (ret.op = "Stage1Filter" /\ ret.err = "") =>
        obj.coefs_int16[ArgMaxAbs(obj.coefs)]
          \in {INT16_MAX_COEFFICIENT, -INT16_MAX_COEFFICIENT}
  /\ (ret.op = "Stage2Filter" /\ ret.err = "") =>
        obj.coefs_int32[ArgMaxAbs(obj.coefs)]
          \in {INT32_MAX_COEFFICIENT, -INT32_MAX_COEFFICIENT}

\* C3: each of the four Filter* methods returns floor(samples_in / Q) output
\* samples per channel, for every accepted filter, T < Q included
C3_OutputLength ==
  ret.op \in FilterOps =>
    /\ ret.err = ""
    /\ Len(ret.val) = Len(ret.arg.rows)
    /\ \A c \in 1..Len(ret.val) :
         Len(ret.val[c]) = Len(ret.arg.rows[1]) \div obj.dec_factor

\* C4: on two vectors of 256 bits VLMACCR1 returns acc + (128 - popcount of
\* their XOR), which lies in [acc - 128, acc + 128], is acc + 128 on equal
\* vectors and acc - 128 on complementary ones
C4_Correlation ==
  (ret.op = "VLMACCR1" /\ Len(ret.vC) = 256 /\ Len(ret.mem) = 256) =>
    /\ ret.err = ""
    /\ ret.val = ret.acc + (128 - PopcountXor(ret.vC, ret.mem))
    /\ ret.val >= ret.acc - 128 /\ ret.val <= ret.acc + 128
    /\ (ret.vC = ret.mem => ret.val = ret.acc + 128)
    /\ ((\A i \in 1..256 : ret.mem[i] = 1 - ret.vC[i]) => ret.val = ret.acc - 128)

\* a correlation of a vector that is not constant with its complement
C4_Witness ==
  /\ ret.op = "VLMACCR1" /\ ret.err = ""
  /\ \A i \in 1..256 : ret.mem[i] = 1 - ret.vC[i]
  /\ ret.vC[1] # ret.vC[2]
  /\ ret.acc = 5 /\ ret.val = -123

\* C5: TwoStageFilter.Filter is s2.FilterInt32 of s1.FilterInt16,
\* DecimationFactor is Q1 * Q2, and the output has floor(N / (Q1 * Q2))
\* samples per channel for every input length N
C5_Composition ==
  /\ ret.op = "TwoStageFilter.DecimationFactor" =>
        ret.val = obj.s1.dec_factor * obj.s2.dec_factor
  /\ ret.op = "TwoStageFilter.Filter" =>
        /\ ret.err = ""
        /\ \A c \in 1..Len(ret.val) :
             Len(ret.val[c]) =
               Len(ret.arg.rows[1]) \div (obj.s1.dec_factor * obj.s2.dec_factor)
        /\ \E plat \in Platforms :
             LET s1_output == Stage1_FilterInt16(obj.s1, ret.arg)
             IN  ret.val = Stage2_FilterInt32(obj.s2, [ndim |-> 2, rows |-> s1_output.val],
                                              plat).val

\* C7: with truncate_s1 the sequence handed to Stage1Filter is the original
\* cut to the largest multiple of 256 not above its length; a sequence whose
\* length is a multiple of 256 is handed over unchanged
C7_TruncateToBlocks ==
  (ret.op = "load" /\ ret.truncate_s1) =>
    ret.handed = SubSeq(ret.coefs, 1, (Len(ret.coefs) \div 256) * 256)

\* C6 (as stated): ToXCoreCoefArray returns (tap_count / 256) * 8 words
C6_EightWordsPerBlock ==
  ret.op = "Stage1Filter.ToXCoreCoefArray" =>
    /\ ret.err = ""
    /\ Len(ret.val) = (Len(obj.coefs) \div 256) * 8

\* C6 (amended): with 16 bits per tap ToXCoreCoefArray returns
\* 16 * tap_count / 32 = (tap_count / 256) * 128 unsigned 32-bit words
C6_WordCount ==
  ret.op = "Stage1Filter.ToXCoreCoefArray" =>
    /\ ret.err = ""
    /\ Len(ret.val) = (Len(obj.coefs) \div 256) * 128
    /\ \A k \in 1..Len(ret.val) :
         ret.val[k].hi \in 0..65535 /\ ret.val[k].lo \in 0..65535

\* the words of a one-block filter, not all of them zero
C6_Witness ==
  /\ ret.op = "Stage1Filter.ToXCoreCoefArray" /\ ret.err = ""
  /\ Len(obj.coefs) = 256
  /\ Len(ret.val) = 128
  /\ \E k \in 1..128 : ret.val[k].lo # 0

\* the padding sample at 0-based index i of a stage
PadSample(op, i) ==
  IF op \in {"Stage1Filter.FilterFloat", "Stage1Filter.FilterInt16"}
  THEN 2 * (i % 2) - 1 ELSE 0

\* C8: in a Filter* call with T >= Q the padded signal is the input preceded
\* by T - Q padding samples (-1, +1, -1, .. for stage 1, zeros for stage 2)
\* and has length (T - Q) + N; output k is computed from the window
\* [Q*k, Q*k + T) of it, which lies inside it; the input is not modified
C8_WindowsAndPadding ==
  (ret.op \in FilterOps /\ Len(obj.coefs) >= obj.dec_factor) =>
    LET T == Len(obj.coefs)
        Q == obj.dec_factor
        N == Len(ret.arg.rows[1])
        P == T - Q
    IN  /\ ret.err = ""
        /\ ret.arg_after = ret.arg
        /\ Len(ret.S) = Len(ret.arg.rows)
        /\ \A c \in 1..Len(ret.S) :
             /\ Len(ret.S[c]) = P + N
             /\ \A i \in 1..P : ret.S[c][i] = PadSample(ret.op, i - 1)
             /\ \A i \in 1..N : ret.S[c][P + i] = ret.arg.rows[c][i]
        /\ Len(ret.win) = N \div Q
        /\ \A k \in 1..Len(ret.win) :
             /\ ret.win[k].lo = Q * (k - 1)
             /\ ret.win[k].hi = Q * (k - 1) + T
             /\ ret.win[k].hi <= P + N

\* a stage-1 call with two outputs on a padded signal
C8_Witness ==
  /\ ret.op = "Stage1Filter.FilterInt16" /\ ret.err = ""
  /\ Len(obj.coefs) > obj.dec_factor
  /\ Len(ret.win) = 2
  /\ ret.S[1][1] = -1 /\ ret.S[1][2] = 1
  /\ ret.win[2].lo = obj.dec_factor

\* sample i (0-based) of channel c of a signal, 0 before its start
SampleAt(sig, c, i) == IF i < 0 THEN 0 ELSE sig.rows[c][i + 1]

\* the causal FIR sum of output k (0-based): coef[m] * x[Q*(k+1) - 1 - m]
CausalFir(coefs, sig, c, Q, k) ==
  Sum([m \in 1..Len(coefs) |-> coefs[m] * SampleAt(sig, c, Q * (k + 1) - m)],
      Len(coefs))

\* the unit impulse at 0-based index n among the samples of a row
IsImpulseAt(row, n) ==
  n + 1 \in 1..Len(row) /\ \A i \in 1..Len(row) : row[i] = (IF i = n + 1 THEN 1 ELSE 0)

\* C9: for T >= Q output k of Stage2Filter.FilterFloat is the sum over m of
\* coef[m] * x[Q*(k+1) - 1 - m] with x = 0 at negative indices, and
\* FilterInt32 rounds the same sum of the quantized taps; a unit impulse at n
\* gives coef[Q*(k+1) - 1 - n] where that index is a tap and 0 elsewhere.
\* Stage1Filter.FilterFloat applies its coefficients to the window in order.
C9_CausalFir ==
  LET T == Len(obj.coefs)
      Q == obj.dec_factor
  IN  /\ (ret.op = "Stage2Filter.FilterFloat" /\ T >= Q) =>
          /\ ret.err = ""
          /\ \A c \in 1..Len(ret.val) : \A k \in 1..Len(ret.val[c]) :
               /\ ret.val[c][k] = CausalFir(obj.coefs, ret.arg, c, Q, k - 1)
               /\ \A n \in 0..(Len(ret.arg.rows[c]) - 1) :
                    IsImpulseAt(ret.arg.rows[c], n) =>
                      ret.val[c][k] = (IF Q * k - 1 - n \in 0..(T - 1)
                                       THEN obj.coefs[Q * k - n] ELSE 0)
      /\ (ret.op = "Stage2Filter.FilterInt32" /\ T >= Q) =>
          /\ ret.err = ""
          /\ \A c \in 1..Len(ret.rescaled) : \A k \in 1..Len(ret.rescaled[c]) :
               ret.rescaled[c][k] =
                 Rescale(I64Sum([m \in 1..T |->
                                   I64Mul(I64(obj.coefs_int32[m]),
                                          I64(SampleAt(ret.arg, c, Q * k - m)))], T),
                         30 + obj.shr_int32)
      /\ (ret.op = "Stage1Filter.FilterFloat" /\ T >= Q) =>
          /\ ret.err = ""
          /\ \A c \in 1..Len(ret.val) : \A k \in 1..Len(ret.val[c]) :
               ret.val[c][k] =
                 Sum([j \in 1..T |-> obj.coefs[j] * ret.S[c][Q * (k - 1) + j]], T)

\* the response of an asymmetric two-tap stage 2 of factor 2 to an impulse at
\* index 2: the second tap, at the second output
C9_Witness ==
  /\ ret.op = "Stage2Filter.FilterFloat" /\ ret.err = ""
  /\ Len(obj.coefs) = 2 /\ obj.dec_factor = 2
  /\ obj.coefs[2] # 0 /\ obj.coefs[1] # obj.coefs[2]
  /\ ret.arg.rows = <<<<0, 0, 1, 0>>>>
  /\ ret.val = <<<<0, obj.coefs[2]>>>>

\* C10: every output of FilterInt16 of a 256-tap filter on samples in
\* {-1, +1} is the sum of window[j] * coefs_int16[j] shifted left by 8 bits,
\* no bit of which is lost in 32 bits, and has magnitude at most 0x7FFFFF00
C10_OneBlockOutput ==
  (ret.op = "Stage1Filter.FilterInt16" /\ Len(obj.coefs) = 256 /\ ret.err = "") =>
    \A c \in 1..Len(ret.val) : \A k \in 1..Len(ret.val[c]) :
      LET acc == Sum([j \in 1..256 |->
                        ret.S[c][ret.win[k].lo + j] * obj.coefs_int16[j]], 256)
      IN  /\ \A j \in 1..256 : ret.S[c][ret.win[k].lo + j] \in {-1, 1}
          /\ acc >= -8388608 /\ acc <= 8388607
          /\ ret.val[c][k] = acc * 256
          /\ ret.val[c][k] >= -STAGE1_MAX_OUT /\ ret.val[c][k] <= STAGE1_MAX_OUT

\* the largest output: 256 taps of 32766 on a window of ones
C10_Witness ==
  /\ ret.op = "Stage1Filter.FilterInt16" /\ ret.err = ""
  /\ Len(obj.coefs) = 256
  /\ Len(ret.val[1]) >= 1
  /\ ret.val[1][1] = 2147352576

====
